---- MODULE Spec2Model ----
(***************************************************************************)
(* A model of the Tera rendering bridge (duckdb_tera_binding/src/lib.rs): *)
(* render_template and free_result_cstring.                               *)
(*                                                                         *)
(* Texts are sequences of bytes (0..255).  The JSON parser (serde_json)   *)
(* and the template engine (tera) are libraries the bridge calls; they    *)
(* are modelled by small deterministic stand-ins that keep what the       *)
(* bridge can observe of them: success or failure, the produced text,     *)
(* the error message and its chain of causes.                             *)
(***************************************************************************)
EXTENDS Integers, Sequences, FiniteSets, TLC

(***************************************************************************)
(* Bounds of the model.                                                    *)
(***************************************************************************)
\* Longest autoescape_on array a caller passes (autoescape_on_count).
MaxSuffixes == 2
\* Addresses the allocator can hand out (live result texts at one time).
MaxAddrs == 2
\* Longest chain of nested causes below a top-level engine error.
MaxCauses == 2

(***************************************************************************)
(* Bytes and texts.                                                        *)
(***************************************************************************)
\* The byte CString::new refuses inside a text, and that ends a C string.
NUL == 0
\* '\n', the separator of messages.join("\n").
NEWLINE == 10

Bytes(s) == { s[i] : i \in 1..Len(s) }

\* s[i..j], the empty text when the range is empty.
Slice(s, i, j) == IF i > j THEN <<>> ELSE SubSeq(s, i, j)

\* s starts with p (str::starts_with).
StartsWith(s, p) == Len(p) <= Len(s) /\ Slice(s, 1, Len(p)) = p

\* s ends with p (str::ends_with).
EndsWith(s, p) == Len(p) <= Len(s) /\ Slice(s, Len(s) - Len(p) + 1, Len(s)) = p

\* s has p at position i.
HasAt(s, i, p) == i + Len(p) - 1 <= Len(s) /\ Slice(s, i, i + Len(p) - 1) = p

\* The first position >= i of byte b in s, Len(s) + 1 when there is none.
RECURSIVE IndexFrom(_, _, _)
IndexFrom(s, i, b) ==
    IF i > Len(s) THEN Len(s) + 1
    ELSE IF s[i] = b THEN i
    ELSE IndexFrom(s, i + 1, b)

\* A continuation byte 10xxxxxx of a UTF-8 sequence.
IsCont(b) == b >= 128 /\ b <= 191

\* core::str::from_utf8 succeeds on s from position i on.
RECURSIVE Utf8From(_, _)
Utf8From(s, i) ==
    IF i > Len(s) THEN TRUE
    ELSE LET b == s[i]
             c(k) == i + k <= Len(s) /\ IsCont(s[i + k])
         IN  IF b <= 127 THEN Utf8From(s, i + 1)
             ELSE IF b >= 194 /\ b <= 223 THEN c(1) /\ Utf8From(s, i + 2)
             ELSE IF b >= 224 /\ b <= 239
                  THEN /\ c(1) /\ c(2)
                       /\ (b = 224 => s[i + 1] >= 160)
                       /\ (b = 237 => s[i + 1] <= 159)
                       /\ Utf8From(s, i + 3)
             ELSE IF b >= 240 /\ b <= 244
                  THEN /\ c(1) /\ c(2) /\ c(3)
                       /\ (b = 240 => s[i + 1] >= 144)
                       /\ (b = 244 => s[i + 1] <= 143)
                       /\ Utf8From(s, i + 4)
             ELSE FALSE

\* CStr::to_str succeeds: the bytes are valid UTF-8.
IsUtf8(s) == Utf8From(s, 1)

(***************************************************************************)
(* C pointers to NUL-terminated strings: null, or the bytes before the    *)
(* terminator (CStr::from_ptr reads up to the first NUL).                 *)
(***************************************************************************)
NullPtr == [null |-> TRUE, s |-> <<>>]
CStrPtr(s) == [null |-> FALSE, s |-> s]

\* Option<String>.
None == [some |-> FALSE, s |-> <<>>]
Some(s) == [some |-> TRUE, s |-> s]

\* fn c_char_to_string(template_path) -> Option<String>
c_char_to_string(template_path) ==
    IF template_path.null THEN None
    ELSE IF IsUtf8(template_path.s) THEN Some(template_path.s)
    ELSE None

(***************************************************************************)
(* serde_json::from_str, on the subset of JSON without whitespace and      *)
(* without escape sequences: null, true, false, unsigned integers,         *)
(* strings, arrays and objects.  A parsed Value is a record tagged by t;   *)
(* an object is a map from key to Value (serde_json::Map keeps one entry   *)
(* per key, the last one written).                                         *)
(***************************************************************************)
JNull == [t |-> "null"]
JBool(b) == [t |-> "bool", b |-> b]
JNum(digits) == [t |-> "num", n |-> digits]
JStr(s) == [t |-> "str", s |-> s]
JArr(items) == [t |-> "arr", items |-> items]
JObj(map) == [t |-> "obj", map |-> map]

\* Map::insert and Context::insert: the entry of key k becomes v.
MapInsert(m, k, v) == [x \in DOMAIN m \cup {k} |-> IF x = k THEN v ELSE m[x]]

EmptyMap == <<>>

ParseOk(v, next) == [ok |-> TRUE, val |-> v, pos |-> next]
ParseFail(at) == [ok |-> FALSE, val |-> JNull, pos |-> at]

IsDigit(b) == b >= 48 /\ b <= 57

\* The end (exclusive) of the run of digits that starts at i.
RECURSIVE DigitsEnd(_, _)
DigitsEnd(s, i) ==
    IF i <= Len(s) /\ IsDigit(s[i]) THEN DigitsEnd(s, i + 1) ELSE i

\* A string body: no control character and no escape.
PlainChars(s) == \A b \in Bytes(s) : b >= 32 /\ b # 92

RECURSIVE ParseValue(_, _)
RECURSIVE ParseElems(_, _, _)
RECURSIVE ParseMembers(_, _, _)

ParseValue(s, i) ==
    IF i > Len(s) THEN ParseFail(i)
    ELSE IF s[i] = 110
         THEN IF HasAt(s, i, <<110, 117, 108, 108>>)
              THEN ParseOk(JNull, i + 4) ELSE ParseFail(i)
    ELSE IF s[i] = 116
         THEN IF HasAt(s, i, <<116, 114, 117, 101>>)
              THEN ParseOk(JBool(TRUE), i + 4) ELSE ParseFail(i)
    ELSE IF s[i] = 102
         THEN IF HasAt(s, i, <<102, 97, 108, 115, 101>>)
              THEN ParseOk(JBool(FALSE), i + 5) ELSE ParseFail(i)
    ELSE IF IsDigit(s[i])
         THEN LET j == IF s[i] = 48 THEN i + 1 ELSE DigitsEnd(s, i)
              IN  ParseOk(JNum(Slice(s, i, j - 1)), j)
    ELSE IF s[i] = 34
         THEN LET j == IndexFrom(s, i + 1, 34)
              IN  IF j <= Len(s) /\ PlainChars(Slice(s, i + 1, j - 1))
                  THEN ParseOk(JStr(Slice(s, i + 1, j - 1)), j + 1)
                  ELSE ParseFail(j)
    ELSE IF s[i] = 91
         THEN IF HasAt(s, i + 1, <<93>>)
              THEN ParseOk(JArr(<<>>), i + 2)
              ELSE ParseElems(s, i + 1, <<>>)
    ELSE IF s[i] = 123
         THEN IF HasAt(s, i + 1, <<125>>)
              THEN ParseOk(JObj(EmptyMap), i + 2)
              ELSE ParseMembers(s, i + 1, EmptyMap)
    ELSE ParseFail(i)

ParseElems(s, i, acc) ==
    LET r == ParseValue(s, i)
    IN  IF ~r.ok THEN r
        ELSE IF HasAt(s, r.pos, <<44>>)
             THEN ParseElems(s, r.pos + 1, Append(acc, r.val))
        ELSE IF HasAt(s, r.pos, <<93>>)
             THEN ParseOk(JArr(Append(acc, r.val)), r.pos + 1)
        ELSE ParseFail(r.pos)

ParseMembers(s, i, map) ==
    LET k == ParseValue(s, i)
    IN  IF ~k.ok THEN k
        ELSE IF k.val.t # "str" THEN ParseFail(i)
        ELSE IF ~HasAt(s, k.pos, <<58>>) THEN ParseFail(k.pos)
        ELSE LET r == ParseValue(s, k.pos + 1)
                 m == MapInsert(map, k.val.s, r.val)
             IN  IF ~r.ok THEN r
                 ELSE IF HasAt(s, r.pos, <<44>>)
                      THEN ParseMembers(s, r.pos + 1, m)
                 ELSE IF HasAt(s, r.pos, <<125>>)
                      THEN ParseOk(JObj(m), r.pos + 1)
                 ELSE ParseFail(r.pos)

\* A decimal digit for a column (the model's columns stay below 10).
Digit(n) == 48 + (n % 10)

\* serde_json::from_str(json_str): Ok(Value), or Err(e) with e's Display.
\* The message stands for "<what> at line 1 column <n>": 'e', then the column.
from_str(json_str) ==
    LET r == ParseValue(json_str, 1)
    IN  IF r.ok /\ r.pos = Len(json_str) + 1
        THEN [ok |-> TRUE, val |-> r.val, msg |-> <<>>]
        ELSE [ok |-> FALSE, val |-> JNull, msg |-> <<101, Digit(r.pos)>>]

(***************************************************************************)
(* The template engine (tera), as far as the bridge observes it.  A       *)
(* template is literal bytes and substitutions {{k}} of a one-letter       *)
(* variable k.  An engine error is its chain of messages, outermost        *)
(* first: error[1] is what Display prints, the rest is what source()       *)
(* walks.  The messages are abbreviated (a letter, then what the real      *)
(* message quotes); the bridge never looks inside them.                    *)
(***************************************************************************)
Ok(output) == [ok |-> TRUE, output |-> output, error |-> <<>>]
Err(chain) == [ok |-> FALSE, output |-> <<>>, error |-> chain]
NoResult == Err(<<>>)

\* The name Tera::one_off gives its template ("__tera_one_off"), abbreviated.
ONE_OFF_TEMPLATE_NAME == <<95>>

\* "Failed to render '<name>'"
MsgFailedToRender(name) == <<114, 32>> \o name
\* "Variable `<k>` not found in context while rendering '<name>'"
MsgVariableNotFound(k, name) == <<118, 32>> \o k \o <<32>> \o name
\* "Template '<name>' not found"
MsgTemplateNotFound(name) == <<116, 32>> \o name
\* "Failed to parse '<name>'"
MsgFailedToParse(name) == <<112, 32>> \o name
\* The parser's report: a position, then on its own line the source it
\* points into.
MsgSyntax(content) == <<115, NEWLINE>> \o content
\* "Tera expects a glob as input, no * were found in `<dir>`"
MsgNoGlob(dir) == <<103, 32>> \o dir

\* tera::escape_html on one byte.
EscapeByte(b) ==
    CASE b = 38 -> <<38, 97, 109, 112, 59>>
      [] b = 60 -> <<38, 108, 116, 59>>
      [] b = 62 -> <<38, 103, 116, 59>>
      [] b = 34 -> <<38, 113, 117, 111, 116, 59>>
      [] b = 39 -> <<38, 35, 120, 50, 55, 59>>
      [] b = 47 -> <<38, 35, 120, 50, 70, 59>>
      [] OTHER -> <<b>>

RECURSIVE escape_html(_)
escape_html(s) ==
    IF s = <<>> THEN <<>> ELSE EscapeByte(Head(s)) \o escape_html(Tail(s))

\* How a substituted value prints; only strings are escaped.
RECURSIVE ShowValue(_, _)
RECURSIVE ShowItems(_, _)
ShowValue(v, escape) ==
    CASE v.t = "str" -> IF escape THEN escape_html(v.s) ELSE v.s
      [] v.t = "num" -> v.n
      [] v.t = "bool" -> IF v.b THEN <<116, 114, 117, 101>>
                         ELSE <<102, 97, 108, 115, 101>>
      [] v.t = "null" -> <<>>
      [] v.t = "arr" -> <<91>> \o ShowItems(v.items, 1) \o <<93>>
      [] v.t = "obj" -> <<91, 111, 98, 106, 101, 99, 116, 93>>
ShowItems(items, i) ==
    IF i > Len(items) THEN <<>>
    ELSE ShowValue(items[i], FALSE)
         \o (IF i < Len(items) THEN <<44, 32>> ELSE <<>>)
         \o ShowItems(items, i + 1)

IsIdent(b) == b >= 97 /\ b <= 122

\* The template's syntax is right from position i on: every {{ opens a
\* complete {{k}}.
RECURSIVE SyntaxFrom(_, _)
SyntaxFrom(content, i) ==
    IF i > Len(content) THEN TRUE
    ELSE IF HasAt(content, i, <<123, 123>>)
         THEN /\ i + 4 <= Len(content)
              /\ IsIdent(content[i + 2])
              /\ HasAt(content, i + 3, <<125, 125>>)
              /\ SyntaxFrom(content, i + 5)
    ELSE SyntaxFrom(content, i + 1)

SyntaxOk(content) == SyntaxFrom(content, 1)

\* Rendering a parsed template from position i on, out being what is
\* rendered so far.
RECURSIVE RenderFrom(_, _, _, _, _, _)
RenderFrom(name, content, i, context, escape, out) ==
    IF i > Len(content) THEN Ok(out)
    ELSE IF HasAt(content, i, <<123, 123>>)
         THEN LET k == <<content[i + 2]>>
              IN  IF k \in DOMAIN context
                  THEN RenderFrom(name, content, i + 5, context, escape,
                                  out \o ShowValue(context[k], escape))
                  ELSE Err(<<MsgFailedToRender(name),
                             MsgVariableNotFound(k, name)>>)
    ELSE RenderFrom(name, content, i + 1, context, escape,
                    Append(out, content[i]))

RenderContent(name, content, context, escape) ==
    RenderFrom(name, content, 1, context, escape, <<>>)

\* The template files on disk: p.h and p.t, both holding {{x}}.
Files ==
    (<<112, 46, 104>> :> <<123, 123, 120, 125, 125>>)
    @@ (<<112, 46, 116>> :> <<123, 123, 120, 125, 125>>)

\* Tera's default suffixes: ".html", ".htm", ".xml".
DefaultAutoescapeSuffixes ==
    << <<46, 104, 116, 109, 108>>, <<46, 104, 116, 109>>, <<46, 120, 109, 108>> >>

\* A Tera instance: its templates by name and the suffixes it escapes for.
Engine(templates, suffixes) ==
    [live |-> TRUE, templates |-> templates, autoescape_suffixes |-> suffixes]
NoEngine == [live |-> FALSE, templates |-> EmptyMap, autoescape_suffixes |-> <<>>]

\* The files a glob pre*post matches.
GlobMatches(dir) ==
    LET star == IndexFrom(dir, 1, 42)
        pre == Slice(dir, 1, star - 1)
        post == Slice(dir, star + 1, Len(dir))
    IN  { f \in DOMAIN Files :
            /\ Len(f) >= Len(pre) + Len(post)
            /\ StartsWith(f, pre)
            /\ EndsWith(f, post) }

\* Tera::new(dir): Ok(engine) with every matching file loaded under its
\* name, or Err with the loader's message.
TeraNew(dir) ==
    IF 42 \notin Bytes(dir)
    THEN [ok |-> FALSE, engine |-> NoEngine, msg |-> MsgNoGlob(dir)]
    ELSE IF \E f \in GlobMatches(dir) : ~SyntaxOk(Files[f])
    THEN [ok |-> FALSE, engine |-> NoEngine,
          msg |-> MsgFailedToParse(CHOOSE f \in GlobMatches(dir) : ~SyntaxOk(Files[f]))]
    ELSE [ok |-> TRUE,
          engine |-> Engine([f \in GlobMatches(dir) |-> Files[f]],
                            DefaultAutoescapeSuffixes),
          msg |-> <<>>]

\* Tera::autoescape_on(suffixes)
autoescape_on(engine, suffixes) ==
    [engine EXCEPT !.autoescape_suffixes = suffixes]

\* Whether the engine escapes while rendering the template called name.
ShouldEscape(engine, name) ==
    \E i \in 1..Len(engine.autoescape_suffixes) :
        EndsWith(name, engine.autoescape_suffixes[i])

\* Tera::render(name, context)
render(engine, name, context) ==
    IF name \notin DOMAIN engine.templates
    THEN Err(<<MsgTemplateNotFound(name)>>)
    ELSE RenderContent(name, engine.templates[name], context,
                       ShouldEscape(engine, name))

\* Tera::one_off(input, context, autoescape)
one_off(input, context, autoescape) ==
    IF ~SyntaxOk(input)
    THEN Err(<<MsgFailedToParse(ONE_OFF_TEMPLATE_NAME), MsgSyntax(input)>>)
    ELSE RenderContent(ONE_OFF_TEMPLATE_NAME, input, context, autoescape)

(***************************************************************************)
(* The bridge.                                                             *)
(***************************************************************************)
\* "Invalid JSON: "
INVALID_JSON == <<73, 110, 118, 97, 108, 105, 100, 32, 74, 83, 79, 78, 58, 32>>
\* "Tera render error: "
TERA_RENDER_ERROR ==
    <<84, 101, 114, 97, 32, 114, 101, 110, 100, 101, 114, 32, 101, 114, 114,
      111, 114, 58, 32>>
\* The render prefix in place of the loading prefix.
MutantLoadingPrefix == TERA_RENDER_ERROR
\* "Template loading error: "
TEMPLATE_LOADING_ERROR ==
    <<84, 101, 109, 112, 108, 97, 116, 101, 32, 108, 111, 97, 100, 105, 110,
      103, 32, 101, 114, 114, 111, 114, 58, 32>>
\* "Caused by: "
CAUSED_BY == <<67, 97, 117, 115, 101, 100, 32, 98, 121, 58, 32>>

\* The calling threads of the host.
Threads == {1, 2}

\* The addresses of the allocator; 0 is the null pointer.
Addrs == 1..MaxAddrs

VARIABLES
    pc,                 \* per thread: where its call of render_template is
    args,               \* per thread: the arguments of its call
    template_path_str,  \* per thread: c_char_to_string(template_path)
    context_value,      \* per thread: the parsed JSON root
    context,            \* per thread: the tera Context
    tera,               \* per engine slot: the Tera instance of the call
    result,             \* per thread: what the engine answered
    messages,           \* per thread: the lines of the diagnostic so far
    source_opt,         \* per thread: the causes still to walk
    formatted_error,    \* per thread: messages.join("\n")
    ret,                \* per thread: the ResultCString returned
    log,                \* per thread: the stages the call ran, in order
    heap,               \* per address: the C string there, <<>> when free
    held,               \* the results the caller holds and has not released
    crashed,            \* a panic ended the process
    ub                  \* memory was released that was not allocated

vars == <<pc, args, template_path_str, context_value, context, tera, result,
          messages, source_opt, formatted_error, ret, log, heap, held,
          crashed, ub>>

\* A call's arguments: the two (pointer, length) buffers as their bytes, the
\* path pointer, the flag and the array of autoescape_on_count pointers.
Call(template_source, json_context, template_path, autoescape, on) ==
    [template_source |-> template_source, json_context |-> json_context,
     template_path |-> template_path, autoescape |-> autoescape,
     autoescape_on |-> on]

NoArgs == Call(<<>>, <<>>, NullPtr, FALSE, <<>>)
NoRet == [tag |-> "none", ptr |-> 0]

\* Template buffers: {{x}}, a NUL byte, an unclosed {{, and the names p.h, p.t.
TemplateSources ==
    { <<123, 123, 120, 125, 125>>, <<NUL>>, <<123, 123>>,
      <<112, 46, 104>>, <<112, 46, 116>> }

\* Context buffers: {"x":"<"}  {}  [1]  "x"  null  true  1  {"x"
\* {"x":"a","x":1}
JsonContexts ==
    { <<123, 34, 120, 34, 58, 34, 60, 34, 125>>, <<123, 125>>, <<91, 49, 93>>,
      <<34, 120, 34>>, <<110, 117, 108, 108>>, <<116, 114, 117, 101>>, <<49>>,
      <<123, 34, 120, 34>>,
      <<123, 34, 120, 34, 58, 34, 97, 34, 44, 34, 120, 34, 58, 49, 125>> }

\* Path pointers: null, "", the glob "*", "x" (no glob), and the byte 0xFF.
TemplatePaths ==
    { NullPtr, CStrPtr(<<>>), CStrPtr(<<42>>), CStrPtr(<<120>>), CStrPtr(<<255>>) }

\* Entries of autoescape_on: null, ".h", and the byte 0xFF.
SuffixEntries == { NullPtr, CStrPtr(<<46, 104>>), CStrPtr(<<255>>) }

SuffixLists == UNION { [1..n -> SuffixEntries] : n \in 0..MaxSuffixes }

AllArgs ==
    { Call(ts, js, tp, ae, on) :
        ts \in TemplateSources, js \in JsonContexts, tp \in TemplatePaths,
        ae \in BOOLEAN, on \in SuffixLists }

Upd(f, t, v) == [f EXCEPT ![t] = v]

Logged(t, stage, ok) == Upd(log, t, Append(log[t], [stage |-> stage, ok |-> ok]))

\* One engine shared by every call.
MutantSharedSlot(t) == 1
\* The engine instance a thread's call uses: its own.
Slot(t) == t

\* The arm without its guard: an empty path selects path mode too.
MutantPathModeUnguarded(path_str) == path_str.some
\* The match arm `Some(ref path) if !path.is_empty()`.
PathMode(path_str) == path_str.some /\ path_str.s # <<>>

\* The addresses with nothing allocated.
FreeAddrs == { a \in Addrs : heap[a] = <<>> }

\* CString::new(text).unwrap() and into_raw(), then the return: a text with a
\* NUL byte panics, and the panic leaves an extern "C" function by ending the
\* process.  Otherwise the text gets its terminator and an allocation of its
\* own, the call's locals are dropped and the tagged pointer is returned.
ReturnWith(t, tag, text) ==
    IF NUL \in Bytes(text)
    THEN /\ crashed' = TRUE
         /\ pc' = Upd(pc, t, "aborted")
         /\ UNCHANGED <<heap, ret, tera, context, context_value>>
    ELSE \E a \in FreeAddrs :
            /\ heap' = Upd(heap, a, Append(text, NUL))
            /\ ret' = Upd(ret, t, [tag |-> tag, ptr |-> a])
            /\ pc' = Upd(pc, t, "returned")
            /\ tera' = Upd(tera, Slot(t), NoEngine)
            /\ context' = Upd(context, t, EmptyMap)
            /\ context_value' = Upd(context_value, t, JNull)
            /\ UNCHANGED crashed

\* The host calls render_template(...) on thread t with arguments from A,
\* while it holds, or is about to receive, fewer than cap results.
\* Lines 60-62: the buffers are viewed as text and the path is decoded.
Enter(t, A, cap) ==
    /\ ~crashed
    /\ pc[t] = "idle"
    /\ Cardinality(held) + Cardinality({ u \in Threads : pc[u] # "idle" }) < cap
    /\ \E a \in A :
          /\ args' = Upd(args, t, a)
          /\ template_path_str' = Upd(template_path_str, t,
                                      c_char_to_string(a.template_path))
    /\ pc' = Upd(pc, t, "json")
    /\ log' = Upd(log, t, <<>>)
    /\ UNCHANGED <<context_value, context, tera, result, messages, source_opt,
                   formatted_error, ret, heap, held, crashed, ub>>

\* A parse error swallowed: the call goes on with the value at hand.
MutantJsonParsedAlways(r) == TRUE
\* The arm `Ok(val) => val` of the match on the parser's answer.
JsonParsed(r) == r.ok

\* Lines 65-72: serde_json::from_str(json_str).
ParseJson(t) ==
    /\ ~crashed
    /\ pc[t] = "json"
    /\ LET r == from_str(args[t].json_context)
       IN  IF JsonParsed(r)
           THEN /\ context_value' = Upd(context_value, t, r.val)
                /\ pc' = Upd(pc, t, "context")
                /\ log' = Logged(t, "json", TRUE)
                /\ UNCHANGED <<context, tera, ret, heap, crashed>>
           ELSE /\ log' = Logged(t, "json", FALSE)
                /\ ReturnWith(t, "Err", INVALID_JSON \o r.msg)
    /\ UNCHANGED <<args, template_path_str, result, messages, source_opt,
                   formatted_error, held, ub>>

\* The loop `for (key, value) in map { context.insert(&key, &value) }`.
RECURSIVE InsertAll(_, _, _)
InsertAll(ctx, map, keys) ==
    IF keys = {} THEN ctx
    ELSE LET k == CHOOSE k \in keys : TRUE
         IN  InsertAll(MapInsert(ctx, k, map[k]), map, keys \ {k})

\* Whether the root's entries are inserted: `if let Value::Object(map)`.
IsObject(value) == value.t = "obj"

\* Only the entries whose value is a string are inserted.
MutantContextOfStrings(value) ==
    IF IsObject(value)
    THEN [k \in { k \in DOMAIN value.map : value.map[k].t = "str" } |-> value.map[k]]
    ELSE EmptyMap
\* Lines 75-80: Context::new(), filled from an object root.
ContextOf(value) ==
    IF IsObject(value) THEN InsertAll(EmptyMap, value.map, DOMAIN value.map)
    ELSE EmptyMap

BuildContext(t) ==
    /\ ~crashed
    /\ pc[t] = "context"
    /\ context' = Upd(context, t, ContextOf(context_value[t]))
    /\ pc' = Upd(pc, t, "select")
    /\ log' = Logged(t, "context", TRUE)
    /\ UNCHANGED <<args, template_path_str, context_value, tera, result,
                   messages, source_opt, formatted_error, ret, heap, held,
                   crashed, ub>>

\* Lines 86-95: path mode, Tera::new(path).
LoadTemplates(t) ==
    /\ ~crashed
    /\ pc[t] = "select"
    /\ PathMode(template_path_str[t])
    /\ LET r == TeraNew(template_path_str[t].s)
       IN  IF r.ok
           THEN /\ tera' = Upd(tera, Slot(t), r.engine)
                /\ pc' = Upd(pc, t, "autoescape")
                /\ log' = Logged(t, "load", TRUE)
                /\ UNCHANGED <<context, context_value, ret, heap, crashed>>
           ELSE /\ log' = Logged(t, "load", FALSE)
                /\ ReturnWith(t, "Err", TEMPLATE_LOADING_ERROR \o r.msg)
    /\ UNCHANGED <<args, template_path_str, result, messages, source_opt,
                   formatted_error, held, ub>>

\* Lines 108-114: null entries are skipped, the others decoded with
\* to_str().unwrap_or_default(), which is "" for bytes that are not UTF-8.
RECURSIVE CollectSuffixes(_, _)
CollectSuffixes(slice, i) ==
    IF i > Len(slice) THEN <<>>
    ELSE IF slice[i].null THEN CollectSuffixes(slice, i + 1)
    ELSE <<IF IsUtf8(slice[i].s) THEN slice[i].s ELSE <<>>>>
         \o CollectSuffixes(slice, i + 1)

\* Lines 98-120: the list handed to tera.autoescape_on.
AutoescapeSuffixes(a) ==
    IF ~a.autoescape \/ Len(a.autoescape_on) = 0 THEN <<>>
    ELSE CollectSuffixes(a.autoescape_on, 1)

ConfigureAutoescape(t) ==
    /\ ~crashed
    /\ pc[t] = "autoescape"
    /\ tera' = Upd(tera, Slot(t),
                   autoescape_on(tera[Slot(t)], AutoescapeSuffixes(args[t])))
    /\ pc' = Upd(pc, t, "render")
    /\ log' = Logged(t, "autoescape", TRUE)
    /\ UNCHANGED <<args, template_path_str, context_value, context, result,
                   messages, source_opt, formatted_error, ret, heap, held,
                   crashed, ub>>

\* Line 123: tera.render(template_str, &context).
RenderNamed(t) ==
    /\ ~crashed
    /\ pc[t] = "render"
    /\ LET r == render(tera[Slot(t)], args[t].template_source, context[t])
       IN  /\ result' = Upd(result, t, r)
           /\ log' = Logged(t, "render", r.ok)
    /\ pc' = Upd(pc, t, "encode")
    /\ UNCHANGED <<args, template_path_str, context_value, context, tera,
                   messages, source_opt, formatted_error, ret, heap, held,
                   crashed, ub>>

\* The suffix rule of path mode applied to the inline render.
MutantInlineEscapeBySuffixes(a) == a.autoescape /\ Len(a.autoescape_on) > 0
\* The escape flag of the inline render: the autoescape argument.
InlineEscape(a) == a.autoescape

\* Lines 126-130: inline mode, Tera::one_off(template_str, &context, autoescape).
RenderInline(t) ==
    /\ ~crashed
    /\ pc[t] = "select"
    /\ ~PathMode(template_path_str[t])
    /\ LET r == one_off(args[t].template_source, context[t], InlineEscape(args[t]))
       IN  /\ result' = Upd(result, t, r)
           /\ log' = Logged(t, "one_off", r.ok)
    /\ pc' = Upd(pc, t, "encode")
    /\ UNCHANGED <<args, template_path_str, context_value, context, tera,
                   messages, source_opt, formatted_error, ret, heap, held,
                   crashed, ub>>

\* Lines 134-137: the Ok arm.
EncodeOk(t) ==
    /\ ~crashed
    /\ pc[t] = "encode"
    /\ result[t].ok
    /\ ReturnWith(t, "Ok", result[t].output)
    /\ UNCHANGED <<args, template_path_str, result, messages, source_opt,
                   formatted_error, log, held, ub>>

\* The walk starts at the error itself, not at its cause.
MutantFirstSourceSelf(error) == error
\* error.source() and source.source(): the rest of the chain.
FirstSource(error) == Tail(error)
NextSource(sources) == Tail(sources)

\* Lines 140-143: the first line, and the first cause.
ErrorBegin(t) ==
    /\ ~crashed
    /\ pc[t] = "encode"
    /\ ~result[t].ok
    /\ messages' = Upd(messages, t, <<TERA_RENDER_ERROR \o result[t].error[1]>>)
    /\ source_opt' = Upd(source_opt, t, FirstSource(result[t].error))
    /\ pc' = Upd(pc, t, "chain")
    /\ UNCHANGED <<args, template_path_str, context_value, context, tera,
                   result, formatted_error, ret, log, heap, held, crashed, ub>>

\* Lines 144-147: one turn of `while let Some(source) = source_opt`.
ErrorCause(t) ==
    /\ ~crashed
    /\ pc[t] = "chain"
    /\ source_opt[t] # <<>>
    /\ messages' = Upd(messages, t,
                       Append(messages[t], CAUSED_BY \o Head(source_opt[t])))
    /\ source_opt' = Upd(source_opt, t, NextSource(source_opt[t]))
    /\ UNCHANGED <<pc, args, template_path_str, context_value, context, tera,
                   result, formatted_error, ret, log, heap, held, crashed, ub>>

\* [String]::join(sep)
RECURSIVE Join(_, _)
Join(lines, sep) ==
    IF lines = <<>> THEN <<>>
    ELSE IF Len(lines) = 1 THEN lines[1]
    ELSE lines[1] \o sep \o Join(Tail(lines), sep)

\* Lines 149-152: the chain is exhausted; join, encode, return.
ErrorReturn(t) ==
    /\ ~crashed
    /\ pc[t] = "chain"
    /\ source_opt[t] = <<>>
    /\ formatted_error' = Upd(formatted_error, t, Join(messages[t], <<NEWLINE>>))
    /\ ReturnWith(t, "Err", Join(messages[t], <<NEWLINE>>))
    /\ UNCHANGED <<args, template_path_str, result, messages, source_opt,
                   log, held, ub>>

\* The host receives the result of thread t's call: from here on the text is
\* the caller's, and nothing of the call is left in the bridge.
Take(t) ==
    /\ ~crashed
    /\ pc[t] = "returned"
    /\ held' = held \cup {ret[t]}
    /\ pc' = Upd(pc, t, "idle")
    /\ ret' = Upd(ret, t, NoRet)
    /\ args' = Upd(args, t, NoArgs)
    /\ template_path_str' = Upd(template_path_str, t, None)
    /\ result' = Upd(result, t, NoResult)
    /\ messages' = Upd(messages, t, <<>>)
    /\ source_opt' = Upd(source_opt, t, <<>>)
    /\ formatted_error' = Upd(formatted_error, t, <<>>)
    /\ log' = Upd(log, t, <<>>)
    /\ UNCHANGED <<context_value, context, tera, heap, crashed, ub>>

\* Only the Ok arm releases.
MutantFreedOkOnly(r) == IF r.tag = "Ok" /\ r.ptr # 0 THEN {r.ptr} ELSE {}
\* Lines 170-181: the addresses free_result_cstring(result) releases, one
\* CString::from_raw and drop in either arm when the pointer is not null.
Freed(r) ==
    IF r.tag = "Ok" THEN (IF r.ptr # 0 THEN {r.ptr} ELSE {})
    ELSE (IF r.ptr # 0 THEN {r.ptr} ELSE {})

\* The host releases a result it holds, once.
Release ==
    /\ ~crashed
    /\ \E r \in held :
          /\ heap' = [a \in Addrs |-> IF a \in Freed(r) THEN <<>> ELSE heap[a]]
          /\ ub' = (ub \/ \E a \in Freed(r) : heap[a] = <<>>)
          /\ held' = held \ {r}
    /\ UNCHANGED <<pc, args, template_path_str, context_value, context, tera,
                   result, messages, source_opt, formatted_error, ret, log,
                   crashed>>

\* One step of thread t's call.
Step(t) ==
    \/ ParseJson(t)
    \/ BuildContext(t)
    \/ LoadTemplates(t)
    \/ ConfigureAutoescape(t)
    \/ RenderNamed(t)
    \/ RenderInline(t)
    \/ EncodeOk(t)
    \/ ErrorBegin(t)
    \/ ErrorCause(t)
    \/ ErrorReturn(t)
    \/ Take(t)

Init ==
    /\ pc = [t \in Threads |-> "idle"]
    /\ args = [t \in Threads |-> NoArgs]
    /\ template_path_str = [t \in Threads |-> None]
    /\ context_value = [t \in Threads |-> JNull]
    /\ context = [t \in Threads |-> EmptyMap]
    /\ tera = [t \in Threads |-> NoEngine]
    /\ result = [t \in Threads |-> NoResult]
    /\ messages = [t \in Threads |-> <<>>]
    /\ source_opt = [t \in Threads |-> <<>>]
    /\ formatted_error = [t \in Threads |-> <<>>]
    /\ ret = [t \in Threads |-> NoRet]
    /\ log = [t \in Threads |-> <<>>]
    /\ heap = [a \in Addrs |-> <<>>]
    /\ held = {}
    /\ crashed = FALSE
    /\ ub = FALSE

\* One host thread, one call at a time, every combination of arguments.
Next ==
    \/ Enter(1, AllArgs, 1)
    \/ Step(1)
    \/ Release

Spec == Init /\ [][Next]_vars

\* Arguments for concurrent calls: {{x}}, p.h or an unclosed {{ before a NUL
\* byte as the template, {"x":"<"} as the context, no path or the glob "*",
\* either flag, and no suffix or ".h".
SmallArgs ==
    { Call(ts, <<123, 34, 120, 34, 58, 34, 60, 34, 125>>, tp, ae, on) :
        ts \in { <<123, 123, 120, 125, 125>>, <<112, 46, 104>>,
                 <<123, 123, NUL>> },
        tp \in { NullPtr, CStrPtr(<<42>>) },
        ae \in BOOLEAN,
        on \in { <<>>, <<CStrPtr(<<46, 104>>)>> } }

\* The host's threads call concurrently and release in any order, as long as
\* the allocator has an address left for every result.
NextConc ==
    \/ \E t \in Threads : Enter(t, SmallArgs, MaxAddrs)
    \/ \E t \in Threads : Step(t)
    \/ Release

SpecConc == Init /\ [][NextConc]_vars

\* Messages an engine error or one of its causes may carry: "e", a newline,
\* a NUL byte.
ErrorMessages == { <<101>>, <<NEWLINE>>, <<NUL>> }

\* Engine errors with up to MaxCauses nested causes.
ErrorChains == UNION { [1..n -> ErrorMessages] : n \in 1..(MaxCauses + 1) }

\* The inline call whose render failed.
FailedCall == Call(<<123, 123>>, <<123, 125>>, NullPtr, FALSE, <<>>)

\* Thread 1 is at `match result` with an engine error of any chain.
InitFmt ==
    /\ \E chain \in ErrorChains : result = [t \in Threads |->
            IF t = 1 THEN Err(chain) ELSE NoResult]
    /\ pc = [t \in Threads |-> IF t = 1 THEN "encode" ELSE "idle"]
    /\ args = [t \in Threads |-> IF t = 1 THEN FailedCall ELSE NoArgs]
    /\ log = [t \in Threads |->
            IF t = 1 THEN << [stage |-> "json", ok |-> TRUE],
                             [stage |-> "context", ok |-> TRUE],
                             [stage |-> "one_off", ok |-> FALSE] >>
            ELSE <<>>]
    /\ template_path_str = [t \in Threads |-> None]
    /\ context_value = [t \in Threads |-> IF t = 1 THEN JObj(EmptyMap) ELSE JNull]
    /\ context = [t \in Threads |-> EmptyMap]
    /\ tera = [t \in Threads |-> NoEngine]
    /\ messages = [t \in Threads |-> <<>>]
    /\ source_opt = [t \in Threads |-> <<>>]
    /\ formatted_error = [t \in Threads |-> <<>>]
    /\ ret = [t \in Threads |-> NoRet]
    /\ heap = [a \in Addrs |-> <<>>]
    /\ held = {}
    /\ crashed = FALSE
    /\ ub = FALSE

\* The Err arm of `match result`, step by step.
NextFmt ==
    \/ ErrorBegin(1)
    \/ ErrorCause(1)
    \/ ErrorReturn(1)

SpecFmt == InitFmt /\ [][NextFmt]_vars

(***************************************************************************)
(* What the claims speak of.                                               *)
(***************************************************************************)
\* The stages thread t's call has run so far.
Stages(t) == { log[t][i].stage : i \in 1..Len(log[t]) }

\* The call of thread t is over: it returned, or it ended the process.
Finished(t) == pc[t] \in {"returned", "aborted"}

\* The text the caller reads behind a returned pointer, up to the terminator.
TextAt(ptr) == Slice(heap[ptr], 1, Len(heap[ptr]) - 1)

\* The path argument selects path mode: not null, valid UTF-8, not empty.
WantsPath(a) ==
    /\ ~a.template_path.null
    /\ IsUtf8(a.template_path.s)
    /\ a.template_path.s # <<>>

\* The context buffer of the call parses.
JsonOk(a) == from_str(a.json_context).ok

\* The call is in path mode and its templates load.
LoadOk(a) == TeraNew(a.template_path.s).ok

\* A returned result is well formed: tagged Ok or Err, its pointer not null
\* and at an allocated, NUL-terminated text with no NUL inside.
WellFormed(r) ==
    /\ r.tag \in {"Ok", "Err"}
    /\ r.ptr \in Addrs
    /\ heap[r.ptr] # <<>>
    /\ heap[r.ptr][Len(heap[r.ptr])] = NUL
    /\ NUL \notin Bytes(TextAt(r.ptr))

(***************************************************************************)
(* C1.  Every in-contract call of render_template returns a well-formed   *)
(* RenderResult and never terminates the process; a text that cannot be    *)
(* encoded (it holds a NUL byte) is replaced by a fallback message.        *)
(* The code unwraps CString::new instead: TLC finds this violated by an   *)
(* inline call whose template is one NUL byte.                             *)
(***************************************************************************)
C1_AlwaysReturnsAResult ==
    /\ ~crashed
    /\ \A t \in Threads :
          /\ pc[t] # "aborted"
          /\ pc[t] = "returned" => WellFormed(ret[t])

(***************************************************************************)
(* C2.  The first failing stage ends the call: after a JSON parse failure *)
(* nothing but the parse has run, after a path-mode load failure neither   *)
(* the autoescape configuration nor a render has run, and no stage runs    *)
(* twice or out of order.                                                  *)
(***************************************************************************)
StageRank(stage) ==
    CASE stage = "json" -> 1
      [] stage = "context" -> 2
      [] stage = "load" -> 3
      [] stage = "autoescape" -> 4
      [] stage = "render" -> 5
      [] stage = "one_off" -> 5

C2_FirstFailureEndsCall ==
    \A t \in Threads :
        /\ \A i \in 1..Len(log[t]) : \A j \in 1..Len(log[t]) :
              i < j => StageRank(log[t][i].stage) < StageRank(log[t][j].stage)
        /\ \A i \in 1..Len(log[t]) : ~log[t][i].ok => i = Len(log[t])
        /\ (pc[t] # "idle" /\ ~JsonOk(args[t])) =>
              /\ Stages(t) \subseteq {"json"}
              /\ pc[t] \in {"json", "returned", "aborted"}
              /\ ~tera[Slot(t)].live
              /\ result[t] = NoResult
        /\ (pc[t] # "idle" /\ JsonOk(args[t]) /\ WantsPath(args[t])
              /\ ~LoadOk(args[t])) =>
              /\ Stages(t) \subseteq {"json", "context", "load"}
              /\ pc[t] \in {"json", "context", "select", "returned", "aborted"}
              /\ ~tera[Slot(t)].live
              /\ result[t] = NoResult
        /\ (pc[t] = "returned" /\ Stages(t) \cap {"render", "one_off"} = {}) =>
              ret[t].tag = "Err"

\* A path-mode call ended by its load failure: the parse and the context ran,
\* the load failed, and the call returned Err with nothing rendered.
C2_Witness ==
    /\ pc[1] = "returned"
    /\ ret[1].tag = "Err"
    /\ JsonOk(args[1]) /\ WantsPath(args[1]) /\ ~LoadOk(args[1])
    /\ Stages(1) = {"json", "context", "load"}

(***************************************************************************)
(* C4.  The render mode is chosen once, from the template path alone:     *)
(* path mode (load, then render by name) exactly when the pointer is not   *)
(* null, the bytes are valid UTF-8 and not empty; inline mode, with no     *)
(* loading, in every other case, and a path that is not UTF-8 falls back   *)
(* to inline mode without a Failure.                                       *)
(***************************************************************************)
C4_ModeFromPathAlone ==
    \A t \in Threads :
        /\ Stages(t) \cap {"load", "autoescape", "render", "one_off"} # {} =>
              IF WantsPath(args[t])
              THEN "load" \in Stages(t) /\ "one_off" \notin Stages(t)
              ELSE /\ "one_off" \in Stages(t)
                   /\ Stages(t) \cap {"load", "autoescape", "render"} = {}
        /\ (Finished(t) /\ JsonOk(args[t])) =>
              Stages(t) \cap {"load", "one_off"} # {}
        /\ (Finished(t) /\ JsonOk(args[t]) /\ ~WantsPath(args[t])) =>
              /\ "one_off" \in Stages(t)
              /\ pc[t] = "returned" =>
                    (ret[t].tag = "Ok" <=> result[t].ok)

\* A call whose path is the byte 0xFF rendered inline and returned Ok.
C4_Witness ==
    /\ pc[1] = "returned"
    /\ args[1].template_path = CStrPtr(<<255>>)
    /\ Stages(1) = {"json", "context", "one_off"}
    /\ ret[1].tag = "Ok"

(***************************************************************************)
(* C5.  In path mode, for every flag and every suffix list (null entries  *)
(* and entries that are not UTF-8 included): with autoescape false or an   *)
(* empty list no template is escaped; with autoescape true and a non-empty *)
(* list a template is escaped exactly when its name ends with one of the   *)
(* given suffixes.  The code turns an entry that is not UTF-8 into the     *)
(* empty suffix, which every name ends with: TLC finds this violated.      *)
(***************************************************************************)
\* The name ends with one of the suffixes the caller gave.
EndsWithGiven(name, on) ==
    \E i \in 1..Len(on) : ~on[i].null /\ EndsWith(name, on[i].s)

C5_EscapeOnlyGivenSuffixes ==
    \A t \in Threads :
        pc[t] = "render" =>
            \A name \in DOMAIN tera[Slot(t)].templates :
                ShouldEscape(tera[Slot(t)], name) <=>
                    /\ args[t].autoescape
                    /\ Len(args[t].autoescape_on) > 0
                    /\ EndsWithGiven(name, args[t].autoescape_on)

(***************************************************************************)
(* C6.  The tag and the prefix follow the first failing stage: Ok exactly *)
(* when the parse, the load (in path mode) and the render all succeed, and *)
(* then the text is the rendered output; otherwise Err, beginning with     *)
(* "Invalid JSON:", "Template loading error:" or "Tera render error:"      *)
(* according to the stage that failed.                                     *)
(***************************************************************************)
\* "Invalid JSON:"
PrefixInvalidJson == <<73, 110, 118, 97, 108, 105, 100, 32, 74, 83, 79, 78, 58>>
\* "Template loading error:"
PrefixLoading ==
    <<84, 101, 109, 112, 108, 97, 116, 101, 32, 108, 111, 97, 100, 105, 110,
      103, 32, 101, 114, 114, 111, 114, 58>>
\* "Tera render error:"
PrefixRender ==
    <<84, 101, 114, 97, 32, 114, 101, 110, 100, 101, 114, 32, 101, 114, 114,
      111, 114, 58>>

C6_TagAndPrefixByStage ==
    \A t \in Threads :
        pc[t] = "returned" =>
            LET a == args[t]
                text == TextAt(ret[t].ptr)
                loads == ~WantsPath(a) \/ LoadOk(a)
            IN  /\ ret[t].tag \in {"Ok", "Err"}
                /\ ret[t].tag = "Ok" <=> (JsonOk(a) /\ loads /\ result[t].ok)
                /\ ret[t].tag = "Ok" => text = result[t].output
                /\ ~JsonOk(a) => StartsWith(text, PrefixInvalidJson)
                /\ (JsonOk(a) /\ ~loads) => StartsWith(text, PrefixLoading)
                /\ (JsonOk(a) /\ loads /\ ~result[t].ok) =>
                      StartsWith(text, PrefixRender)

\* A path-mode call whose glob has no '*' returned Err "Template loading
\* error: ...".
C6_Witness ==
    /\ pc[1] = "returned"
    /\ ret[1].tag = "Err"
    /\ JsonOk(args[1]) /\ WantsPath(args[1]) /\ ~LoadOk(args[1])
    /\ StartsWith(TextAt(ret[1].ptr), PrefixLoading)

(***************************************************************************)
(* C7.  After a successful parse the context is always built: from an     *)
(* object root it holds exactly the root's entries, one per key; from any  *)
(* other root it is empty, and the call goes on to render.                 *)
(***************************************************************************)
C7_ContextFromRoot ==
    \A t \in Threads :
        /\ pc[t] \in {"select", "autoescape", "render", "encode", "chain"} =>
              LET root == from_str(args[t].json_context).val
              IN  IF root.t = "obj"
                  THEN /\ DOMAIN context[t] = DOMAIN root.map
                       /\ \A k \in DOMAIN root.map : context[t][k] = root.map[k]
                  ELSE context[t] = EmptyMap
        /\ (JsonOk(args[t]) /\ pc[t] \notin {"idle", "json", "context"}) =>
              /\ "context" \in Stages(t)
              /\ \A i \in 1..Len(log[t]) :
                    log[t][i].stage \in {"json", "context"} => log[t][i].ok
        /\ (JsonOk(args[t]) /\ Finished(t)) =>
              Stages(t) \cap {"load", "one_off"} # {}

\* The context built from {"x":"a","x":1}: the one entry x, with the value
\* written last.
C7_Witness ==
    /\ pc[1] = "select"
    /\ args[1].json_context =
          <<123, 34, 120, 34, 58, 34, 97, 34, 44, 34, 120, 34, 58, 49, 125>>
    /\ DOMAIN context[1] = {<<120>>}
    /\ context[1][<<120>>] = JNum(<<49>>)

(***************************************************************************)
(* C8.  For a render failure whose error has n nested causes, the         *)
(* diagnostic is n+1 newline-joined lines: "Tera render error: " and the   *)
(* top-level message, then for the i-th cause "Caused by: " and its        *)
(* message, outermost first, none skipped or repeated; the walk ends when  *)
(* the chain is exhausted.                                                 *)
(***************************************************************************)
\* The n+1 lines the claim names for the error chain e.
LinesOf(e) ==
    [i \in 1..Len(e) |->
        IF i = 1
        THEN <<84, 101, 114, 97, 32, 114, 101, 110, 100, 101, 114, 32, 101,
               114, 114, 111, 114, 58, 32>> \o e[1]
        ELSE <<67, 97, 117, 115, 101, 100, 32, 98, 121, 58, 32>> \o e[i]]

\* Where line i starts in the text that joins lines with one separator byte.
RECURSIVE LineStart(_, _)
LineStart(lines, i) ==
    IF i = 1 THEN 1 ELSE LineStart(lines, i - 1) + Len(lines[i - 1]) + 1

\* text is lines, in order, with one newline between neighbours and nothing
\* else.
IsNewlineJoined(text, lines) ==
    /\ Len(text) = LineStart(lines, Len(lines)) + Len(lines[Len(lines)]) - 1
    /\ \A i \in 1..Len(lines) : HasAt(text, LineStart(lines, i), lines[i])
    /\ \A i \in 2..Len(lines) : text[LineStart(lines, i) - 1] = NEWLINE

C8_DiagnosticLines ==
    \A t \in Threads :
        LET e == result[t].error
        IN  /\ pc[t] = "chain" =>
                  /\ Len(messages[t]) + Len(source_opt[t]) = Len(e)
                  /\ messages[t] = SubSeq(LinesOf(e), 1, Len(messages[t]))
            /\ (Finished(t) /\ e # <<>>) =>
                  /\ source_opt[t] = <<>>
                  /\ Len(messages[t]) = Len(e)
                  /\ IsNewlineJoined(formatted_error[t], LinesOf(e))
            /\ (pc[t] = "returned" /\ e # <<>>) =>
                  /\ ret[t].tag = "Err"
                  /\ TextAt(ret[t].ptr) = formatted_error[t]

\* An error with two nested causes returned as three lines.
C8_Witness ==
    /\ pc[1] = "returned"
    /\ Len(result[1].error) = 3
    /\ Len(messages[1]) = 3
    /\ ret[1].tag = "Err"
    /\ TextAt(ret[1].ptr) =
          Join(<<TERA_RENDER_ERROR \o <<101>>, CAUSED_BY \o <<NEWLINE>>,
                 CAUSED_BY \o <<101>>>>, <<NEWLINE>>)

(***************************************************************************)
(* C9.  In inline mode the suffix list is ignored: two inline calls that  *)
(* differ only in the suffix list end the same way, with the same tag and  *)
(* the same text, and the inline call never configures suffixes.           *)
(***************************************************************************)
\* How thread t's call ended: the tag and the text, or the abort.
Outcome(t) ==
    IF pc[t] = "aborted" THEN [tag |-> "abort", text |-> <<>>]
    ELSE [tag |-> ret[t].tag, text |-> TextAt(ret[t].ptr)]

SameButSuffixes(a, b) ==
    /\ a.template_source = b.template_source
    /\ a.json_context = b.json_context
    /\ a.template_path = b.template_path
    /\ a.autoescape = b.autoescape

C9_InlineIgnoresSuffixes ==
    \A t \in Threads :
        /\ (Finished(t) /\ ~WantsPath(args[t])) => "autoescape" \notin Stages(t)
        /\ \A u \in Threads :
              (/\ Finished(t) /\ Finished(u)
               /\ ~WantsPath(args[t])
               /\ SameButSuffixes(args[t], args[u]))
              => Outcome(t) = Outcome(u)

\* Two inline renders of {{x}} with autoescape on, one with no suffix and one
\* with ".h", both returned the escaped text.
C9_Witness ==
    /\ pc[1] = "returned" /\ pc[2] = "returned"
    /\ ~WantsPath(args[1])
    /\ args[1].autoescape
    /\ SameButSuffixes(args[1], args[2])
    /\ args[1].autoescape_on = <<>>
    /\ args[2].autoescape_on = <<CStrPtr(<<46, 104>>)>>
    /\ Outcome(1) = [tag |-> "Ok", text |-> <<38, 108, 116, 59>>]
    /\ Outcome(2) = Outcome(1)

(***************************************************************************)
(* C10.  No state is shared between calls: under any interleaving each    *)
(* call ends as it would alone, and the engine a call uses is created in   *)
(* that call, is no other call's, and does not outlive the call.           *)
(***************************************************************************)
\* The diagnostic of an engine error, whole.
DiagnosticOf(e) == Join(LinesOf(e), <<NEWLINE>>)

\* The end of a call that has text to return under tag.
Encoded(tag, text) ==
    IF NUL \in Bytes(text) THEN [tag |-> "abort", text |-> <<>>]
    ELSE [tag |-> tag, text |-> text]

RenderedAs(r) ==
    IF r.ok THEN Encoded("Ok", r.output) ELSE Encoded("Err", DiagnosticOf(r.error))

\* How the call with arguments a ends when nothing else runs.
Alone(a) ==
    LET j == from_str(a.json_context)
        ctx == ContextOf(j.val)
        l == TeraNew(a.template_path.s)
    IN  IF ~j.ok THEN Encoded("Err", INVALID_JSON \o j.msg)
        ELSE IF ~WantsPath(a)
             THEN RenderedAs(one_off(a.template_source, ctx, a.autoescape))
        ELSE IF ~l.ok THEN Encoded("Err", TEMPLATE_LOADING_ERROR \o l.msg)
        ELSE RenderedAs(render(autoescape_on(l.engine, AutoescapeSuffixes(a)),
                               a.template_source, ctx))

C10_CallsDoNotInterfere ==
    \A t \in Threads :
        /\ Finished(t) => Outcome(t) = Alone(args[t])
        /\ pc[t] \in {"autoescape", "render"} =>
              /\ tera[Slot(t)].live
              /\ tera[Slot(t)].templates = TeraNew(args[t].template_path.s).engine.templates
        /\ pc[t] \in {"idle", "json", "context", "select", "returned"} =>
              ~tera[Slot(t)].live

\* Two path-mode calls ran together, one escaping for ".h" and one escaping
\* nothing, and each returned its own rendering of p.h.
C10_Witness ==
    /\ pc[1] = "returned" /\ pc[2] = "returned"
    /\ WantsPath(args[1]) /\ WantsPath(args[2])
    /\ Outcome(1) = [tag |-> "Ok", text |-> <<38, 108, 116, 59>>]
    /\ Outcome(2) = [tag |-> "Ok", text |-> <<60>>]

(***************************************************************************)
(* C3.  When the caller releases each returned result exactly once: every *)
(* returned call has allocated exactly one text, Ok and Err alike, and the *)
(* caller has it; the live allocations are exactly the texts of the        *)
(* results returned and not yet released, each at its own address; nothing *)
(* is released twice; once every result is released nothing is live.       *)
(***************************************************************************)
\* The addresses with an allocation.
Live == { a \in Addrs : heap[a] # <<>> }

\* The results handed out and not yet released: those the caller holds and
\* those being returned to it.
Outstanding == held \cup { ret[t] : t \in { u \in Threads : pc[u] = "returned" } }

C3_OneAllocationPerResult ==
    /\ ~ub
    /\ Live = { r.ptr : r \in Outstanding }
    /\ \A r \in Outstanding : WellFormed(r)
    /\ \A r1 \in Outstanding : \A r2 \in Outstanding :
          r1.ptr = r2.ptr => r1 = r2
    /\ \A t \in Threads : \A u \in Threads :
          (t # u /\ pc[t] = "returned" /\ pc[u] = "returned") => ret[t].ptr # ret[u].ptr
    /\ \A t \in Threads :
          /\ pc[t] = "returned" => ret[t] \notin held
          /\ pc[t] # "returned" => ret[t] = NoRet
    /\ Outstanding = {} => Live = {}

\* The caller holds an Ok result and an Err result, each with its own live
\* text, while no call is running.
C3_Witness ==
    /\ \A t \in Threads : pc[t] = "idle"
    /\ \E r1 \in held : \E r2 \in held :
          /\ r1.tag = "Ok" /\ r2.tag = "Err"
          /\ r1.ptr # r2.ptr
          /\ heap[r1.ptr] # <<>> /\ heap[r2.ptr] # <<>>

====
